---- MODULE Spec2Model ----
(***************************************************************************)
(* Exclusion-zone pipeline (agents/tools/terrain_tools.py) and layout      *)
(* validator (agents/tools/wind_farm_dev_tools.py) of the renewable        *)
(* planning agent.                                                         *)
(*                                                                         *)
(* Geometry is modelled along one meridian.  A geographic coordinate is an *)
(* integer number of 1e-4 degrees ("u").  A raw feature geometry is a      *)
(* LineString or a Polygon with extent [lo, hi]; a polygon covers the unit *)
(* cells lo .. hi-1 of a strip StripWidth u wide, a LineString covers no   *)
(* area.  A merged (multi-)polygon is a set of such extents (its parts).   *)
(***************************************************************************)
EXTENDS Integers, Sequences, FiniteSets, TLC

VARIABLES
    stage,        \* position in query_overpass: which step ran last
    center_lat,   \* analysis centre (u)
    radius_km,    \* analysis radius, kilometres
    setbacks,     \* the five setback distances handed to apply_setback (m)
    geojson,      \* FeatureCollection produced by osm_to_geojson
    filtered,     \* FeatureCollection returned by filter_by_radius
    buffered,     \* FeatureCollection returned by apply_setback
    merged,       \* FeatureCollection returned by simplify_geojson_union
    args,         \* arguments of get_unbuildable_areas
    resolved,     \* the setbacks get_unbuildable_areas hands to query_overpass
    osm_data,     \* elements of the Overpass response
    outcome,      \* the dictionary get_unbuildable_areas returned
    all_files,    \* get_project_status: what list_project_files returns
    status_reply, \* the dictionary get_project_status returned
    latest_sim,   \* analyze_simulation_results: latest cached simulation
    analysis_reply, \* the dictionary analyze_simulation_results returned
    vpc,          \* validate_layout_quality: "idle", "start" or "done"
    layout,       \* turbine_layout.geojson as stored (or missing)
    boundaries,   \* boundaries.geojson as stored (or missing)
    min_spacing_m,\* min_spacing_m argument, in millimetres
    result        \* the dictionary validate_layout_quality returned

terrainVars == <<stage, center_lat, radius_km, setbacks, geojson, filtered, buffered, merged>>
terrainVarsButStage == <<center_lat, radius_km, setbacks, geojson, filtered, buffered, merged>>
validateVars == <<vpc, layout, boundaries, min_spacing_m, result>>
analysisVars == <<args, resolved, osm_data, outcome>>
reportVars == <<all_files, status_reply, latest_sim, analysis_reply>>
vars == <<stage, center_lat, radius_km, setbacks, geojson, filtered, buffered, merged,
          args, resolved, osm_data, outcome,
          all_files, status_reply, latest_sim, analysis_reply,
          vpc, layout, boundaries, min_spacing_m, result>>

(***************************************************************************)
(* Bounds of the model.                                                    *)
(***************************************************************************)
MaxFeatures == 2
MaxRadiusKm == 2
MaxTurbines == 3
StripWidth == 10

Abs(x) == IF x < 0 THEN -x ELSE x

SeqToSet(s) == {s[i] : i \in 1..Len(s)}

(***************************************************************************)
(* Tag dictionaries.  A missing tag reads as "" (props.get(key, '') and    *)
(* the pd.notna test of apply_setback).                                    *)
(***************************************************************************)
TagKeys == {"building", "amenity", "landuse", "highway", "railway", "power",
            "man_made", "natural", "waterway", "water"}

Tags(t) == [k \in TagKeys |-> IF k \in DOMAIN t THEN t[k] ELSE ""]

\* a plausible slip: the amenity test is left out
is_residence_receptor_no_amenity(props) ==
    \/ props["building"] \in {"residential", "house", "apartments", "detached", "terrace"}
    \/ props["landuse"] = "residential"

is_residence_receptor(props) ==
    \/ props["building"] \in {"residential", "house", "apartments", "detached", "terrace"}
    \/ props["amenity"] \in {"school", "hospital", "clinic", "nursing_home", "kindergarten"}
    \/ props["landuse"] = "residential"

is_road_railroad_transmission(props) ==
    \/ props["highway"] # ""
    \/ props["railway"] # ""
    \/ props["power"] \in {"line", "tower", "pole", "substation"}
    \/ props["man_made"] \in {"tower", "mast", "antenna"}
    \/ props["building"] \in {"commercial", "industrial", "retail", "warehouse",
                              "church", "mosque", "temple"}

is_pipeline_distribution(props) ==
    \/ props["man_made"] \in {"pipeline", "petroleum_well", "gas_well"}
    \/ props["power"] \in {"minor_line", "cable"}

is_water_wetland(props) ==
    \/ props["natural"] \in {"water", "wetland", "coastline"}
    \/ props["waterway"] \in {"river", "stream", "canal"}
    \/ props["water"] \in {"lake", "pond", "reservoir"}

\* a plausible slip: the infrastructure test is tried before the residence test
setback_type_infra_first(props) ==
    IF is_road_railroad_transmission(props) THEN "infrastructure"
    ELSE IF is_residence_receptor(props) THEN "residence"
    ELSE IF is_pipeline_distribution(props) THEN "pipeline"
    ELSE IF is_water_wetland(props) THEN "water"
    ELSE "other"

\* the if/elif chain of apply_setback: the feature_type it assigns
setback_type(props) ==
    IF is_residence_receptor(props) THEN "residence"
    ELSE IF is_road_railroad_transmission(props) THEN "infrastructure"
    ELSE IF is_pipeline_distribution(props) THEN "pipeline"
    ELSE IF is_water_wetland(props) THEN "water"
    ELSE "other"

DefaultSetbackFallback == 100

\* the buffer_distance apply_setback picks for a feature_type
buffer_distance(ftype, cfg) ==
    CASE ftype = "residence" -> cfg.residence_setback_m
      [] ftype = "infrastructure" -> cfg.road_setback_m
      [] ftype = "pipeline" -> cfg.lines_setback_m
      [] ftype = "water" -> cfg.water_setback_m
      [] OTHER -> IF cfg.default_setback_m = 0 THEN DefaultSetbackFallback
                  ELSE cfg.default_setback_m

(***************************************************************************)
(* Geometry.                                                               *)
(***************************************************************************)
\* metres per u along the meridian in the projected system (EPSG:32614)
MetersPerUnit == 10

to_utm(x) == x * MetersPerUnit

to_wgs84(p) == p \div MetersPerUnit

EmptyPolygon == [type |-> "Polygon", lo |-> 0, hi |-> 0]

\* GeoSeries.distance: planar distance (m) from a geometry to the centre
distance_to_center(g, c) ==
    LET glo == to_utm(g.lo)
        ghi == to_utm(g.hi)
        cu == to_utm(c)
    IN IF cu < glo THEN glo - cu ELSE IF cu > ghi THEN cu - ghi ELSE 0

\* geometry.buffer(d) in the projected system, reprojected to geographic
buffer_geometry(g, d) ==
    LET plo == to_utm(g.lo) - d
        phi == to_utm(g.hi) + d
    IN IF d = 0 /\ g.type = "Polygon" THEN g
       ELSE IF d <= 0 /\ g.type # "Polygon" THEN EmptyPolygon
       ELSE IF phi <= plo THEN EmptyPolygon
       ELSE [type |-> "Polygon", lo |-> to_wgs84(plo), hi |-> to_wgs84(phi)]

CellsOf(g) == IF g.type = "Polygon" THEN g.lo .. (g.hi - 1) ELSE {}

\* geometry.area, in u^2
Area(g) == Cardinality(CellsOf(g)) * StripWidth

PartsCells(parts) == UNION {p.lo .. (p.hi - 1) : p \in parts}

PartsArea(parts) == Cardinality(PartsCells(parts)) * StripWidth

\* Douglas-Peucker tolerance of both simplify calls: 0.0003 degrees = 3 u
SimplifyTolerance == 3

\* gdf.geometry.area > 0.000001 (square degrees) = 100 u^2
AreaThreshold == 100

\* What simplify(tolerance, preserve_topology=True) may return for a polygon:
\* every boundary point stays within the tolerance, so an end moves inwards
\* (a convex outline loses vertices), outwards (a concave one) or not at all.
SimplifyShifts == {0 - SimplifyTolerance, 0, SimplifyTolerance}

\* one polygon simplified with boundary shift s; it never collapses
simplify_extent(lo, hi, s) ==
    IF hi > lo /\ (hi + s) > (lo - s) THEN [lo |-> lo - s, hi |-> hi + s]
    ELSE [lo |-> lo, hi |-> hi]

simplify_geometry(g, s) ==
    IF g.type = "Polygon"
    THEN [type |-> "Polygon", lo |-> simplify_extent(g.lo, g.hi, s).lo,
          hi |-> simplify_extent(g.lo, g.hi, s).hi]
    ELSE g

\* shapely.ops.unary_union of polygons: the connected parts of what they cover
unary_union(geoms) ==
    LET U == UNION {CellsOf(g) : g \in geoms}
        starts == {a \in U : (a - 1) \notin U}
        ends == {b \in U : (b + 1) \notin U}
        EndOf(a) == CHOOSE b \in ends : b >= a /\ \A e \in ends : e >= a => b <= e
    IN {[lo |-> a, hi |-> EndOf(a) + 1] : a \in starts}

simplify_parts(parts, s) == {simplify_extent(p.lo, p.hi, s) : p \in parts}

(***************************************************************************)
(* filter_by_radius                                                        *)
(***************************************************************************)
\* a plausible slip: a feature exactly at the radius is dropped
within_radius_strict(f, c, r_km) ==
    distance_to_center(f.geometry, c) < r_km * 1000

\* gdf_utm.distance(center_utm) <= radius_m
within_radius(f, c, r_km) ==
    distance_to_center(f.geometry, c) <= r_km * 1000

\* a plausible slip: the kept rows are not converted back to EPSG:4326
reprojected_left_in_utm(f) ==
    [f EXCEPT !.geometry.lo = to_utm(f.geometry.lo),
              !.geometry.hi = to_utm(f.geometry.hi)]

\* the geometry after to_crs('EPSG:32614') and back to_crs('EPSG:4326')
reprojected(f) ==
    [f EXCEPT !.geometry.lo = to_wgs84(to_utm(f.geometry.lo)),
              !.geometry.hi = to_wgs84(to_utm(f.geometry.hi))]

\* a plausible slip: the input is handed back when the filter keeps nothing
filter_by_radius_keeps_input_when_none_left(fc, c, r_km) ==
    LET kept == SelectSeq(fc, LAMBDA f : within_radius(f, c, r_km))
    IN IF kept = <<>> THEN fc
       ELSE [i \in 1..Len(kept) |-> reprojected(kept[i])]

filter_by_radius(fc, c, r_km) ==
    IF fc = <<>> THEN fc
    ELSE LET kept == SelectSeq(fc, LAMBDA f : within_radius(f, c, r_km))
         IN [i \in 1..Len(kept) |-> reprojected(kept[i])]

(***************************************************************************)
(* apply_setback                                                           *)
(***************************************************************************)
apply_setback_feature(f, cfg) ==
    LET ftype == setback_type(f.properties)
        dist == buffer_distance(ftype, cfg)
    IN [geometry |-> buffer_geometry(f.geometry, dist),
        properties |-> f.properties,
        setback_applied |-> TRUE,
        default_setback_m |-> dist,
        setback_type |-> ftype]

apply_setback(fc, cfg) ==
    IF fc = <<>> THEN fc
    ELSE [i \in 1..Len(fc) |-> apply_setback_feature(fc[i], cfg)]

(***************************************************************************)
(* simplify_geojson_union, the path on which nothing raises                *)
(***************************************************************************)
GroupNames == <<"buildings", "roads", "water", "other">>

building_mask(f) == f.properties["building"] # ""

highway_mask(f) == f.properties["highway"] # ""

natural_water_mask(f) == f.properties["natural"] = "water"

waterway_mask(f) == f.properties["waterway"] # ""

\* a plausible slip: the 'other' mask forgets to exclude the roads
in_group_other_keeps_roads(name, f) ==
    CASE name = "buildings" -> building_mask(f)
      [] name = "roads" -> highway_mask(f)
      [] name = "water" -> natural_water_mask(f) \/ waterway_mask(f)
      [] OTHER -> ~building_mask(f) /\ ~natural_water_mask(f) /\ ~waterway_mask(f)

\* the rows of gdf that groups[name] selects
in_group(name, f) ==
    CASE name = "buildings" -> building_mask(f)
      [] name = "roads" -> highway_mask(f)
      [] name = "water" -> natural_water_mask(f) \/ waterway_mask(f)
      [] OTHER -> ~building_mask(f) /\ ~highway_mask(f)
                  /\ ~natural_water_mask(f) /\ ~waterway_mask(f)

\* gdf.geometry.simplify(...) of every row, with boundary shift s1
pre_simplified(fc, s1) ==
    [i \in 1..Len(fc) |-> simplify_geometry(fc[i].geometry, s1)]

\* the rows left by gdf[gdf.geometry.area > 0.000001]
survivors(fc, s1) ==
    {i \in 1..Len(fc) : Area(pre_simplified(fc, s1)[i]) > AreaThreshold}

group_members(fc, s1, name) ==
    {i \in survivors(fc, s1) : in_group(name, fc[i])}

\* a plausible slip: len(gdf) where len(group_gdf) is meant
merged_feature_counts_every_row(fc, s1, s2, name) ==
    LET members == group_members(fc, s1, name)
        geoms == {pre_simplified(fc, s1)[i] : i \in members}
    IN [geometry |-> simplify_parts(unary_union(geoms), s2),
        feature_type |-> name,
        original_count |-> Cardinality(survivors(fc, s1)),
        members |-> members]

\* the merged feature of one group; members is bookkeeping (the rows of
\* group_gdf), not part of the GeoJSON
merged_feature(fc, s1, s2, name) ==
    LET members == group_members(fc, s1, name)
        geoms == {pre_simplified(fc, s1)[i] : i \in members}
    IN [geometry |-> simplify_parts(unary_union(geoms), s2),
        feature_type |-> name,
        original_count |-> Cardinality(members),
        members |-> members]

RECURSIVE merged_features(_, _, _, _)
\* the loop over groups.items(), from group k on
merged_features(fc, s1, s2, k) ==
    IF k > Len(GroupNames) THEN <<>>
    ELSE IF group_members(fc, s1, GroupNames[k]) = {}
         THEN merged_features(fc, s1, s2, k + 1)
         ELSE <<merged_feature(fc, s1, s2, GroupNames[k])>>
              \o merged_features(fc, s1, s2, k + 1)

simplify_geojson_union(fc, s1, s2) ==
    IF fc = <<>> THEN fc
    ELSE merged_features(fc, s1, s2, 1)

(***************************************************************************)
(* Inputs of a terrain analysis.                                           *)
(***************************************************************************)
Poly(lo, hi) == [type |-> "Polygon", lo |-> lo, hi |-> hi]

Line(lo, hi) == [type |-> "LineString", lo |-> lo, hi |-> hi]

Feature(g, t) == [geometry |-> g, properties |-> Tags(t)]

\* Features osm_to_geojson can emit; distances are from the centre 0.
FeatureCatalog ==
    { Feature(Poly(50, 52), [building |-> "house"]),
      Feature(Line(100, 100), [highway |-> "primary"]),
      Feature(Poly(30, 31), [natural |-> "water"]),
      Feature(Line(101, 140), [man_made |-> "pipeline"]),
      Feature(Line(60, 60), [power |-> "line"]),
      Feature(Poly(95, 97), [building |-> "school"]),
      Feature(Poly(200, 230), [natural |-> "water", water |-> "lake"]),
      Feature(Poly(70, 72), [building |-> "yes", highway |-> "services"]),
      Feature(Poly(80, 90), [landuse |-> "residential"]),
      Feature(Poly(34, 35), [waterway |-> "stream"]) }

RECURSIVE SeqsUpTo(_, _)
\* the sequences over S of length at most n
SeqsUpTo(S, n) ==
    IF n = 0 THEN {<<>>}
    ELSE LET shorter == SeqsUpTo(S, n - 1)
         IN shorter \cup {Append(q, x) : q \in {r \in shorter : Len(r) = n - 1}, x \in S}

SetbackConfigs ==
    { [residence_setback_m |-> 300, road_setback_m |-> 110, lines_setback_m |-> 110,
       water_setback_m |-> 30, default_setback_m |-> 100],
      [residence_setback_m |-> 200, road_setback_m |-> 150, lines_setback_m |-> 120,
       water_setback_m |-> 50, default_setback_m |-> 0] }

\* An optional argument: None is the empty tuple, a given value v is <<v>>.
None == <<>>

Some(v) == <<v>>

\* Python truthiness of an optional number: None and 0 are both false
Truthy(x) == x # None /\ x[1] # 0

NoOutcome == [returned |-> FALSE]

\* get_unbuildable_areas is not running: query_overpass was called directly
AnalysisIdle ==
    /\ args = [radius_km |-> 0, default_setback_m |-> None, tip_height_m |-> None,
               rotor_radius_m |-> None, residence_setback_m |-> None,
               road_setback_m |-> None, water_setback_m |-> None,
               lines_setback_m |-> None]
    /\ resolved = [residence_setback_m |-> 0, road_setback_m |-> 0,
                   lines_setback_m |-> 0, water_setback_m |-> 0,
                   default_setback_m |-> None]
    /\ osm_data = [status_code |-> 200, elements |-> <<>>]
    /\ outcome = NoOutcome

NoResult == [status |-> "none"]

NoReply == [returned |-> FALSE]

\* get_project_status and analyze_simulation_results are not running
ReportIdle ==
    /\ all_files = [success |-> TRUE, files |-> {}]
    /\ status_reply = NoReply
    /\ latest_sim = [found |-> FALSE]
    /\ analysis_reply = NoReply

\* validate_layout_quality is not running
LayoutIdle ==
    /\ vpc = "idle"
    /\ layout = <<>>
    /\ boundaries = [present |-> FALSE, features |-> <<>>]
    /\ min_spacing_m = 0
    /\ result = NoResult

ValidatorIdle ==
    /\ ReportIdle
    /\ LayoutIdle

\* query_overpass after the fetch: the converted collection and the arguments
Init ==
    /\ stage = "fetched"
    /\ center_lat = 0
    /\ radius_km \in 1..MaxRadiusKm
    /\ setbacks \in SetbackConfigs
    /\ geojson \in SeqsUpTo(FeatureCatalog, MaxFeatures)
    /\ filtered = <<>>
    /\ buffered = <<>>
    /\ merged = <<>>
    /\ AnalysisIdle
    /\ ValidatorIdle

FilterByRadius ==
    /\ stage = "fetched"
    /\ filtered' = filter_by_radius(geojson, center_lat, radius_km)
    /\ stage' = "filtered"
    /\ UNCHANGED <<center_lat, radius_km, setbacks, geojson, buffered, merged>>
    /\ UNCHANGED analysisVars
    /\ UNCHANGED validateVars
    /\ UNCHANGED reportVars

ApplySetback ==
    /\ stage = "filtered"
    /\ buffered' = apply_setback(filtered, setbacks)
    /\ stage' = "buffered"
    /\ UNCHANGED <<center_lat, radius_km, setbacks, geojson, filtered, merged>>
    /\ UNCHANGED analysisVars
    /\ UNCHANGED validateVars
    /\ UNCHANGED reportVars

SimplifyGeojsonUnion ==
    /\ stage = "buffered"
    /\ \E s1 \in SimplifyShifts, s2 \in SimplifyShifts :
         merged' = simplify_geojson_union(buffered, s1, s2)
    /\ stage' = "merged"
    /\ UNCHANGED <<center_lat, radius_km, setbacks, geojson, filtered, buffered>>
    /\ UNCHANGED analysisVars
    /\ UNCHANGED validateVars
    /\ UNCHANGED reportVars

Next ==
    \/ FilterByRadius
    \/ ApplySetback
    \/ SimplifyGeojsonUnion

Spec == Init /\ [][Next]_vars

\* filter_by_radius applied once more, to its own output
Refilter ==
    /\ stage = "filtered"
    /\ filtered' = filter_by_radius(filtered, center_lat, radius_km)
    /\ stage' = "refiltered"
    /\ UNCHANGED <<center_lat, radius_km, setbacks, geojson, buffered, merged>>
    /\ UNCHANGED analysisVars
    /\ UNCHANGED validateVars
    /\ UNCHANGED reportVars

NextRefilter ==
    \/ FilterByRadius
    \/ Refilter

SpecRefilter == Init /\ [][NextRefilter]_vars

(***************************************************************************)
(* validate_layout_quality.  Turbines stand on one meridian (longitude 0); *)
(* latitudes are in u and every length is in millimetres, so a value the   *)
(* result reports rounded to one decimal of a metre is a multiple of 100.  *)
(***************************************************************************)
MetersPerLat == 111320

\* 1000 * cos(radians(mean latitude)), for the latitudes modelled (the cosine
\* is 1.000 to three decimals below 2.5 degrees, 0.999 from there to 3.6)
CosPerMille(lat1, lat2) == IF Abs(lat1 + lat2) < 50000 THEN 1000 ELSE 999

MetersPerLon(lat1, lat2) == (MetersPerLat * CosPerMille(lat1, lat2)) \div 1000

\* math.sqrt of a sum of two squares
Hypot(dx, dy) ==
    IF dx = 0 THEN Abs(dy)
    ELSE IF dy = 0 THEN Abs(dx)
    ELSE CHOOSE r \in 0..(Abs(dx) + Abs(dy)) :
             r * r <= dx * dx + dy * dy /\ (r + 1) * (r + 1) > dx * dx + dy * dy

\* the distance of lines 125-129, in millimetres
distance(t1, t2) ==
    LET dx == ((t2.lon - t1.lon) * MetersPerLon(t1.lat, t2.lat)) \div 10
        dy == ((t2.lat - t1.lat) * MetersPerLat) \div 10
    IN Hypot(dx, dy)

\* round(x, 1) of a length x in millimetres (no length of the model lies
\* half-way between two multiples of 100)
Round1(x) == IF x >= 0 THEN ((x + 50) \div 100) * 100 ELSE 0 - (((50 - x) \div 100) * 100)

\* point.intersects(geom): the boundary of a polygon belongs to it
point_intersects(t, geom) == \E p \in geom : p.lo <= t.lat /\ t.lat <= p.hi

BoundaryIssue == "Located in unbuildable area (water, roads, buildings, or protected zone)"

boundary_entry(t) ==
    [turbine_id |-> t.turbine_id, coordinates |-> <<t.lat, t.lon>>, issue |-> BoundaryIssue]

\* a plausible slip: one entry is appended for every zone the turbine meets
boundary_entries_per_zone(t, zones) ==
    LET hits == SelectSeq(zones, LAMBDA z : point_intersects(t, z.geometry))
    IN [k \in 1..Len(hits) |-> boundary_entry(t)]

\* what the boundary check appends for one turbine
boundary_entries(t, zones) ==
    IF \E k \in 1..Len(zones) : point_intersects(t, zones[k].geometry)
    THEN <<boundary_entry(t)>>
    ELSE <<>>

RECURSIVE boundary_violations_from(_, _, _)
\* the loop over features from index k on, with boundaries_gdf present
boundary_violations_from(turbines, zones, k) ==
    IF k > Len(turbines) THEN <<>>
    ELSE boundary_entries(turbines[k], zones)
         \o boundary_violations_from(turbines, zones, k + 1)

\* a plausible slip: the inner loop starts at the turbine itself
inner_start_self(i) == i

\* enumerate(turbine_positions[i+1:], i+1): the first j paired with i
inner_start(i) == i + 1

RECURSIVE pairs_from(_, _, _)
\* the index pairs the nested loops visit, in order, from (i, j) on
pairs_from(n, i, j) ==
    IF i > n THEN <<>>
    ELSE IF j > n THEN pairs_from(n, i + 1, inner_start(i + 1))
    ELSE <<<<i, j>>>> \o pairs_from(n, i, j + 1)

\* a plausible slip: the pairs are visited from the last turbine backwards
turbine_pairs_backwards(n) ==
    LET fwd == pairs_from(n, 1, inner_start(1))
    IN [k \in 1..Len(fwd) |-> fwd[Len(fwd) + 1 - k]]

turbine_pairs(n) == pairs_from(n, 1, inner_start(1))

distance_entry(t1, t2) ==
    [turbine1 |-> t1.turbine_id, turbine2 |-> t2.turbine_id,
     distance_m |-> Round1(distance(t1, t2))]

\* a plausible slip: a pair exactly at the minimum spacing is a violation
violates_spacing_inclusive(d, min_spacing) == d <= min_spacing

\* distance < min_spacing_m
violates_spacing(d, min_spacing) == d < min_spacing

\* a plausible slip: the violation reports the distance as computed
spacing_entry_distance_not_rounded(t1, t2, min_spacing) ==
    [turbine1 |-> t1.turbine_id, turbine2 |-> t2.turbine_id,
     actual_distance_m |-> distance(t1, t2),
     required_distance_m |-> min_spacing,
     shortfall_m |-> Round1(min_spacing - distance(t1, t2))]

spacing_entry(t1, t2, min_spacing) ==
    [turbine1 |-> t1.turbine_id, turbine2 |-> t2.turbine_id,
     actual_distance_m |-> Round1(distance(t1, t2)),
     required_distance_m |-> min_spacing,
     shortfall_m |-> Round1(min_spacing - distance(t1, t2))]

\* a plausible slip: only the spacing violations are counted
total_violations_spacing_only(bv, sv) == Len(sv)

\* len(boundary_violations) + len(spacing_violations)
total_violations(bv, sv) == Len(bv) + Len(sv)

\* a plausible slip: the layout passes when it has no boundary violation
validation_passed_boundary_only(bv, sv) == Len(bv) = 0

validation_passed(bv, sv) == total_violations(bv, sv) = 0

error_result(msg) ==
    [status |-> "error", validation_passed |-> FALSE, message |-> msg,
     boundary_violations |-> <<>>, spacing_violations |-> <<>>,
     turbine_distances |-> <<>>]

\* a plausible slip: the empty-layout test is left out
no_turbines_unchecked(features) == FALSE

\* if not features
no_turbines(features) == features = <<>>

\* feature['geometry']['coordinates'] and feature['properties'] can be read
well_formed(feature) == {"lat", "lon", "turbine_id"} \subseteq DOMAIN feature

validate_layout_quality(lay, bnd, min_spacing) ==
    IF ~lay.present THEN error_result("No turbine layout found")
    ELSE IF no_turbines(lay.features) THEN error_result("No turbines found in layout")
    ELSE IF \E k \in 1..Len(lay.features) : ~well_formed(lay.features[k])
    THEN error_result("Validation failed")
    ELSE
      LET features == lay.features
          has_gdf == bnd.present /\ bnd.features # <<>>
          bv == IF has_gdf THEN boundary_violations_from(features, bnd.features, 1)
                ELSE <<>>
          pairs == turbine_pairs(Len(features))
          close == SelectSeq(pairs, LAMBDA p :
                       violates_spacing(distance(features[p[1]], features[p[2]]),
                                        min_spacing))
          td == [k \in 1..Len(pairs) |->
                    distance_entry(features[pairs[k][1]], features[pairs[k][2]])]
          sv == [k \in 1..Len(close) |->
                    spacing_entry(features[close[k][1]], features[close[k][2]],
                                  min_spacing)]
      IN [status |-> "success",
          validation_passed |-> validation_passed(bv, sv),
          total_turbines |-> Len(features),
          total_violations |-> total_violations(bv, sv),
          boundary_violations |-> bv,
          spacing_violations |-> sv,
          turbine_distances |-> td,
          min_spacing_required_m |-> min_spacing,
          spacing_validation_applied |-> TRUE]

(***************************************************************************)
(* Inputs of a validation.                                                 *)
(***************************************************************************)
Turbine(id, lat) == [turbine_id |-> id, lat |-> lat, lon |-> 0]

TurbineCatalog ==
    { Turbine("T1", 0), Turbine("T2", 27), Turbine("T3", 53),
      Turbine("T4", 110), Turbine("T5", 2) }

RECURSIVE InjSeqsUpTo(_, _)
\* the sequences over S without repetition, of length at most n
InjSeqsUpTo(S, n) ==
    IF n = 0 THEN {<<>>}
    ELSE LET shorter == InjSeqsUpTo(S, n - 1)
         IN shorter \cup
            UNION {{Append(q, x) : x \in S \ SeqToSet(q)} :
                       q \in {r \in shorter : Len(r) = n - 1}}

Zone(parts, ftype, count) ==
    [geometry |-> parts, feature_type |-> ftype, original_count |-> count]

WaterZone == Zone({[lo |-> 40, hi |-> 60]}, "water", 2)

BuildingsZone == Zone({[lo |-> 100, hi |-> 110], [lo |-> 130, hi |-> 160]}, "buildings", 3)

OtherZone == Zone({[lo |-> 50, hi |-> 70]}, "other", 1)

BoundaryChoices ==
    { [present |-> FALSE, features |-> <<>>],
      [present |-> TRUE, features |-> <<>>],
      [present |-> TRUE, features |-> <<WaterZone>>],
      [present |-> TRUE, features |-> <<BuildingsZone, WaterZone, OtherZone>>] }

\* min_spacing_m: 300 m (the default), 300.564 m, 22.3 m and 22.27 m
MinSpacingChoices == {300000, 300564, 22300, 22270}

TerrainIdle ==
    /\ stage = "idle"
    /\ center_lat = 0
    /\ radius_km = 1
    /\ setbacks = [residence_setback_m |-> 300, road_setback_m |-> 110,
                   lines_setback_m |-> 110, water_setback_m |-> 30,
                   default_setback_m |-> 100]
    /\ geojson = <<>>
    /\ filtered = <<>>
    /\ buffered = <<>>
    /\ merged = <<>>

InitValidate ==
    /\ TerrainIdle
    /\ AnalysisIdle
    /\ vpc = "start"
    /\ layout \in {[present |-> FALSE, features |-> <<>>]}
                  \cup {[present |-> TRUE, features |-> q] :
                            q \in InjSeqsUpTo(TurbineCatalog, MaxTurbines)}
    /\ boundaries \in BoundaryChoices
    /\ min_spacing_m \in MinSpacingChoices
    /\ result = NoResult
    /\ ReportIdle

ValidateLayoutQuality ==
    /\ vpc = "start"
    /\ result' = validate_layout_quality(layout, boundaries, min_spacing_m)
    /\ vpc' = "done"
    /\ UNCHANGED <<layout, boundaries, min_spacing_m>>
    /\ UNCHANGED terrainVars
    /\ UNCHANGED analysisVars
    /\ UNCHANGED reportVars

NextValidate == ValidateLayoutQuality

SpecValidate == InitValidate /\ [][NextValidate]_vars

\* validate_layout_quality called again on the same project files
ValidateAgain ==
    /\ vpc = "done"
    /\ result' = validate_layout_quality(layout, boundaries, min_spacing_m)
    /\ vpc' = "again"
    /\ UNCHANGED <<layout, boundaries, min_spacing_m>>
    /\ UNCHANGED terrainVars
    /\ UNCHANGED analysisVars
    /\ UNCHANGED reportVars

NextRevalidate ==
    \/ ValidateLayoutQuality
    \/ ValidateAgain

SpecRevalidate == InitValidate /\ [][NextRevalidate]_vars

(***************************************************************************)
(* apply_setback on one feature, over a space of tag dictionaries.         *)
(***************************************************************************)
TagSpace ==
    { [building |-> b, amenity |-> a, landuse |-> l, highway |-> h, railway |-> r,
       power |-> p, man_made |-> m, natural |-> n, waterway |-> w, water |-> x] :
        b \in {"", "house", "apartments", "school", "hospital", "commercial", "yes"},
        a \in {"", "school", "clinic", "cafe"},
        l \in {"", "residential", "industrial"},
        h \in {"", "primary"},
        r \in {"", "rail"},
        p \in {"", "line", "minor_line"},
        m \in {"", "tower", "pipeline"},
        n \in {"", "water"},
        w \in {"", "stream"},
        x \in {"", "lake"} }

InitClassify ==
    /\ stage = "filtered"
    /\ center_lat = 0
    /\ radius_km = 1
    /\ setbacks \in SetbackConfigs
    /\ \E t \in TagSpace :
         /\ geojson = <<[geometry |-> Poly(50, 52), properties |-> t]>>
         /\ filtered = <<[geometry |-> Poly(50, 52), properties |-> t]>>
    /\ buffered = <<>>
    /\ merged = <<>>
    /\ AnalysisIdle
    /\ ValidatorIdle

NextClassify == ApplySetback

SpecClassify == InitClassify /\ [][NextClassify]_vars

(***************************************************************************)
(* osm_to_geojson.  A coordinate is a pair <<lon, lat>> in u; an element   *)
(* of the Overpass response carries its own coordinate list under the key  *)
(* 'geometry' (ways), or none (a node has lat/lon, a relation keeps the    *)
(* coordinates of its member ways under 'members').                        *)
(***************************************************************************)
RECURSIVE MinLat(_)
MinLat(coords) ==
    IF Len(coords) = 1 THEN coords[1][2]
    ELSE LET m == MinLat(Tail(coords))
         IN IF coords[1][2] < m THEN coords[1][2] ELSE m

RECURSIVE MaxLat(_)
MaxLat(coords) ==
    IF Len(coords) = 1 THEN coords[1][2]
    ELSE LET m == MaxLat(Tail(coords))
         IN IF coords[1][2] > m THEN coords[1][2] ELSE m

\* a plausible slip: a closed ring of three vertices is promoted as well
geom_type_three_vertices(coords) ==
    IF coords[1] = coords[Len(coords)] /\ Len(coords) >= 3 THEN "Polygon"
    ELSE "LineString"

\* "Polygon" if coords[0] == coords[-1] and len(coords) > 3 else "LineString"
geom_type(coords) ==
    IF coords[1] = coords[Len(coords)] /\ Len(coords) > 3 THEN "Polygon"
    ELSE "LineString"

\* element['type'] == 'way' and 'geometry' in element, and len(coords) > 1
retained(element) ==
    /\ element.type = "way"
    /\ element.has_geometry
    /\ Len(element.geometry) > 1

\* the feature appended for a retained element
osm_feature(element) ==
    [geometry |-> [type |-> geom_type(element.geometry),
                   lo |-> MinLat(element.geometry),
                   hi |-> MaxLat(element.geometry)],
     properties |-> Tags(element.tags)]

osm_to_geojson(elements) ==
    LET kept == SelectSeq(elements, retained)
    IN [k \in 1..Len(kept) |-> osm_feature(kept[k])]

Way(coords, t) ==
    [type |-> "way", has_geometry |-> TRUE, geometry |-> coords,
     members |-> <<>>, tags |-> t]

\* a relation of the response: the coordinates are those of its member ways
Relation(coords, t) ==
    [type |-> "relation", has_geometry |-> FALSE, geometry |-> <<>>,
     members |-> coords, tags |-> t]

\* a rectangle across the strip, a closed ring of five vertices
Ring(lo, hi) ==
    <<<<0, lo>>, <<StripWidth, lo>>, <<StripWidth, hi>>, <<0, hi>>, <<0, lo>>>>

\* Elements the Overpass query of query_overpass can return.
RawCatalog ==
    { Way(Ring(50, 52), [building |-> "house"]),
      Way(<<<<0, 100>>, <<StripWidth, 100>>>>, [highway |-> "primary"]),
      Way(<<<<0, 30>>, <<StripWidth, 31>>, <<0, 30>>>>, [natural |-> "water"]),
      Way(<<<<0, 60>>>>, [power |-> "line"]),
      Way(<<<<0, 80>>, <<StripWidth, 85>>, <<0, 90>>, <<0, 80>>>>,
          [landuse |-> "residential"]),
      Way(<<<<0, 101>>, <<0, 110>>, <<0, 120>>, <<0, 140>>>>, [man_made |-> "pipeline"]),
      Way(Ring(0, 20), [amenity |-> "cafe"]),
      Relation(Ring(5, 9), [natural |-> "water"]) }

(***************************************************************************)
(* get_unbuildable_areas.  Its distances are in centimetres (30.48 m is    *)
(* 3048); the pipeline above measures setbacks in whole metres.            *)
(***************************************************************************)
\* a plausible slip, the one the comment at line 619 describes: the residence
\* setback is resolved as 1.1 x rotor radius
resolve_setbacks_residence_from_rotor(a) ==
    LET dflt(n) == IF Truthy(a.default_setback_m) THEN a.default_setback_m[1] ELSE n
    IN [residence_setback_m |->
            IF a.residence_setback_m # None THEN a.residence_setback_m[1]
            ELSE IF Truthy(a.rotor_radius_m) THEN (11 * a.rotor_radius_m[1]) \div 10
            ELSE dflt(30000),
        road_setback_m |->
            IF a.road_setback_m # None THEN a.road_setback_m[1]
            ELSE IF Truthy(a.tip_height_m) THEN (11 * a.tip_height_m[1]) \div 10
            ELSE dflt(11000),
        lines_setback_m |->
            IF a.lines_setback_m # None THEN a.lines_setback_m[1]
            ELSE IF Truthy(a.rotor_radius_m) THEN (11 * a.rotor_radius_m[1]) \div 10
            ELSE dflt(11000),
        water_setback_m |->
            IF a.water_setback_m # None THEN a.water_setback_m[1]
            ELSE 3048,
        default_setback_m |-> a.default_setback_m]

\* lines 618-629: the setbacks handed to query_overpass
resolve_setbacks(a) ==
    LET dflt(n) == IF Truthy(a.default_setback_m) THEN a.default_setback_m[1] ELSE n
    IN [residence_setback_m |->
            IF a.residence_setback_m # None THEN a.residence_setback_m[1]
            ELSE IF Truthy(a.tip_height_m) THEN 3 * a.tip_height_m[1]
            ELSE dflt(30000),
        road_setback_m |->
            IF a.road_setback_m # None THEN a.road_setback_m[1]
            ELSE IF Truthy(a.tip_height_m) THEN (11 * a.tip_height_m[1]) \div 10
            ELSE dflt(11000),
        lines_setback_m |->
            IF a.lines_setback_m # None THEN a.lines_setback_m[1]
            ELSE IF Truthy(a.rotor_radius_m) THEN (11 * a.rotor_radius_m[1]) \div 10
            ELSE dflt(11000),
        water_setback_m |->
            IF a.water_setback_m # None THEN a.water_setback_m[1]
            ELSE 3048,
        default_setback_m |-> a.default_setback_m]

\* the setbacks as the pipeline measures them, in whole metres; a default of
\* None reads as 0 there (both are false in "default_setback_m or 100")
in_metres(r) ==
    [residence_setback_m |-> r.residence_setback_m \div 100,
     road_setback_m |-> r.road_setback_m \div 100,
     lines_setback_m |-> r.lines_setback_m \div 100,
     water_setback_m |-> r.water_setback_m \div 100,
     default_setback_m |-> IF r.default_setback_m = None THEN 0
                           ELSE r.default_setback_m[1] \div 100]

\* add_feature_types_fallback: the label of one feature
fallback_feature_type(f) ==
    IF f.properties["building"] # "" THEN "buildings"
    ELSE IF f.properties["highway"] # "" THEN "roads"
    ELSE IF f.properties["natural"] = "water" \/ f.properties["waterway"] # ""
    THEN "water"
    ELSE "other"

\* a plausible slip: the label is written over the setback record
add_feature_types_fallback_over_setback_type(fc) ==
    [i \in 1..Len(fc) |->
        [geometry |-> fc[i].geometry, properties |-> fc[i].properties,
         setback_applied |-> fc[i].setback_applied,
         default_setback_m |-> fc[i].default_setback_m,
         setback_type |-> fallback_feature_type(fc[i]),
         feature_type |-> fallback_feature_type(fc[i])]]

\* a plausible slip: the fallback keeps only the features of a named group
add_feature_types_fallback_drops_other(fc) ==
    LET kept == SelectSeq(fc, LAMBDA f : fallback_feature_type(f) # "other")
    IN [i \in 1..Len(kept) |->
           [geometry |-> kept[i].geometry, properties |-> kept[i].properties,
            setback_applied |-> kept[i].setback_applied,
            default_setback_m |-> kept[i].default_setback_m,
            setback_type |-> kept[i].setback_type,
            feature_type |-> fallback_feature_type(kept[i])]]

add_feature_types_fallback(fc) ==
    [i \in 1..Len(fc) |->
        [geometry |-> fc[i].geometry, properties |-> fc[i].properties,
         setback_applied |-> fc[i].setback_applied,
         default_setback_m |-> fc[i].default_setback_m,
         setback_type |-> fc[i].setback_type,
         feature_type |-> fallback_feature_type(fc[i])]]

\* the dictionaries get_unbuildable_areas returns; raised_in is bookkeeping
\* (where the failure arose), not a key of the dictionary
Returned(ok, raised, data) ==
    [returned |-> TRUE, success |-> ok, raised_in |-> raised, GeoJSON_data |-> data,
     error |-> IF ok THEN ""
               ELSE IF raised = "save_analysis_results" THEN "Failed to save results"
               ELSE "Analysis failed"]

\* a plausible slip: the handler is missing and the exception leaves the tool
handle_exception_missing(where) == NoOutcome

\* except Exception of get_unbuildable_areas, lines 656-661
handle_exception(where) == Returned(FALSE, where, <<>>)

\* get_unbuildable_areas, lines 608-629
ResolveSetbacks ==
    /\ stage = "called"
    /\ resolved' = resolve_setbacks(args)
    /\ setbacks' = in_metres(resolve_setbacks(args))
    /\ radius_km' = args.radius_km
    /\ stage' = "resolved"
    /\ UNCHANGED <<center_lat, geojson, filtered, buffered, merged>>
    /\ UNCHANGED <<args, osm_data, outcome>>
    /\ UNCHANGED validateVars
    /\ UNCHANGED reportVars

\* a plausible slip: only the error statuses count as a failed request
request_failed_on_errors_only(response) == response.status_code >= 400

\* response.status_code != 200
request_failed(response) == response.status_code # 200

\* query_overpass, lines 45-122: the request and the test of its status
PostOverpass ==
    /\ stage = "resolved"
    /\ IF request_failed(osm_data)
       THEN merged' = <<>> /\ stage' = "merged"
       ELSE merged' = merged /\ stage' = "responded"
    /\ UNCHANGED <<center_lat, radius_km, setbacks, geojson, filtered, buffered>>
    /\ UNCHANGED analysisVars
    /\ UNCHANGED validateVars
    /\ UNCHANGED reportVars

OsmToGeojson ==
    /\ stage = "responded"
    /\ geojson' = osm_to_geojson(osm_data.elements)
    /\ stage' = "fetched"
    /\ UNCHANGED <<center_lat, radius_km, setbacks, filtered, buffered, merged>>
    /\ UNCHANGED analysisVars
    /\ UNCHANGED validateVars
    /\ UNCHANGED reportVars

\* row.geometry.buffer raises for a row: apply_setback and query_overpass
\* pass the exception on, the handler of get_unbuildable_areas returns
ApplySetbackRaises ==
    /\ stage = "filtered"
    /\ filtered # <<>>
    /\ outcome' = handle_exception("apply_setback")
    /\ stage' = "failed"
    /\ UNCHANGED terrainVarsButStage
    /\ UNCHANGED <<args, resolved, osm_data>>
    /\ UNCHANGED validateVars
    /\ UNCHANGED reportVars

\* something raises inside the try of simplify_geojson_union; the fallback
\* writes feature_type into the properties of the features it was given and
\* returns the collection it was given
SimplifyGeojsonUnionRaises ==
    /\ stage = "buffered"
    /\ buffered # <<>>
    /\ buffered' = add_feature_types_fallback(buffered)
    /\ merged' = buffered'
    /\ stage' = "fallback"
    /\ UNCHANGED <<center_lat, radius_km, setbacks, geojson, filtered>>
    /\ UNCHANGED analysisVars
    /\ UNCHANGED validateVars
    /\ UNCHANGED reportVars

\* requests.post or response.json raises inside query_overpass
PostOverpassRaises ==
    /\ stage = "resolved"
    /\ outcome' = handle_exception("query_overpass")
    /\ stage' = "failed"
    /\ UNCHANGED terrainVarsButStage
    /\ UNCHANGED <<args, resolved, osm_data>>
    /\ UNCHANGED validateVars
    /\ UNCHANGED reportVars

\* from_features, to_crs or distance raises inside filter_by_radius
FilterByRadiusRaises ==
    /\ stage = "fetched"
    /\ geojson # <<>>
    /\ outcome' = handle_exception("filter_by_radius")
    /\ stage' = "failed"
    /\ UNCHANGED terrainVarsButStage
    /\ UNCHANGED <<args, resolved, osm_data>>
    /\ UNCHANGED validateVars
    /\ UNCHANGED reportVars

\* save_analysis_results and the return of get_unbuildable_areas
SaveAnalysisResults ==
    /\ stage \in {"merged", "fallback"}
    /\ \E saved \in BOOLEAN :
         outcome' = IF saved THEN Returned(TRUE, "", merged)
                    ELSE Returned(FALSE, "save_analysis_results", <<>>)
    /\ stage' = "returned"
    /\ UNCHANGED terrainVarsButStage
    /\ UNCHANGED <<args, resolved, osm_data>>
    /\ UNCHANGED validateVars
    /\ UNCHANGED reportVars

NextAnalysis ==
    \/ ResolveSetbacks
    \/ PostOverpass
    \/ OsmToGeojson
    \/ FilterByRadius
    \/ ApplySetback
    \/ ApplySetbackRaises
    \/ SimplifyGeojsonUnion
    \/ SimplifyGeojsonUnionRaises
    \/ SaveAnalysisResults

Args(r, d, tip, rotor, res, road, water, lines) ==
    [radius_km |-> r, default_setback_m |-> d, tip_height_m |-> tip,
     rotor_radius_m |-> rotor, residence_setback_m |-> res, road_setback_m |-> road,
     water_setback_m |-> water, lines_setback_m |-> lines]

\* Calls of get_unbuildable_areas: turbine data only; a negative residence
\* setback; a radius of zero; every setback given, the residence and the
\* default one as zero.
ArgChoices ==
    { Args(1, Some(10000), Some(10000), Some(5000), None, None, None, None),
      Args(1, Some(10000), Some(10000), Some(5000), Some(0 - 5000), None, None, None),
      Args(0, Some(10000), Some(10000), Some(5000), None, None, None, None),
      Args(2, Some(0), None, None, Some(0), Some(15000), Some(5000), Some(12000)) }

Responses ==
    {[status_code |-> 200, elements |-> e] : e \in SeqsUpTo(RawCatalog, MaxFeatures)}
    \cup {[status_code |-> 504, elements |-> <<>>],
          [status_code |-> 429, elements |-> <<>>],
          [status_code |-> 203,
           elements |-> <<Way(Ring(50, 52), [building |-> "house"])>>]}

AnalysisCalled ==
    /\ stage = "called"
    /\ center_lat = 0
    /\ radius_km = 0
    /\ resolved = [residence_setback_m |-> 0, road_setback_m |-> 0,
                   lines_setback_m |-> 0, water_setback_m |-> 0,
                   default_setback_m |-> None]
    /\ setbacks = in_metres(resolved)
    /\ geojson = <<>>
    /\ filtered = <<>>
    /\ buffered = <<>>
    /\ merged = <<>>
    /\ outcome = NoOutcome
    /\ ValidatorIdle

InitAnalysis ==
    /\ AnalysisCalled
    /\ args \in ArgChoices
    /\ osm_data \in Responses

SpecAnalysis == InitAnalysis /\ [][NextAnalysis]_vars

\* Calls of get_unbuildable_areas over a space of optional arguments, on a
\* response holding one element that matches no class.
ArgSpace ==
    { Args(1, d, tip, rotor, res, road, water, lines) :
        d \in {None, Some(0), Some(20000)},
        tip \in {None, Some(0), Some(10000), Some(15000)},
        rotor \in {None, Some(5000)},
        res \in {None, Some(0), Some(25000)},
        road \in {None, Some(15000)},
        water \in {None, Some(5000)},
        lines \in {None, Some(0)} }

InitResolve ==
    /\ AnalysisCalled
    /\ args \in ArgSpace
    /\ osm_data \in {[status_code |-> 200,
                      elements |-> <<Way(Ring(0, 20), [amenity |-> "cafe"])>>],
                     [status_code |-> 504, elements |-> <<>>]}

SpecResolve == InitResolve /\ [][NextAnalysis]_vars

(***************************************************************************)
(* get_project_status.  A path of all_files is the sequence of its pieces, *)
(* cut so that the name of an agent folder is a piece of its own.          *)
(***************************************************************************)
\* 'terrain_agent' in f, and the like: the path holds the piece
path_has(agent, f) == \E k \in 1..Len(f) : f[k] = agent

\* any(agent in f for f in all_files)
any_path_has(agent, files) == \E f \in files : path_has(agent, f)

\* a plausible slip: the percentage is taken over three stages
completion_percentage_of_three(completed_stages) == (completed_stages * 100) \div 3

\* (completed_stages / 4) * 100
completion_percentage(completed_stages) == (completed_stages * 100) \div 4

\* sum([...]) of the four flags
completed_stages(flags) ==
    Cardinality({k \in DOMAIN flags : flags[k]})

\* a plausible slip: the simulation is asked for before the layout
next_step_simulation_before_layout(flags) ==
    IF ~flags.terrain_analysis
    THEN "Run terrain analysis to identify unbuildable areas"
    ELSE IF ~flags.simulation THEN "Run wake simulation and energy calculations"
    ELSE IF ~flags.layout_design THEN "Create turbine layout design"
    ELSE IF ~flags.reporting THEN "Generate executive report"
    ELSE "Project complete - all stages finished"

next_step(flags) ==
    IF ~flags.terrain_analysis
    THEN "Run terrain analysis to identify unbuildable areas"
    ELSE IF ~flags.layout_design THEN "Create turbine layout design"
    ELSE IF ~flags.simulation THEN "Run wake simulation and energy calculations"
    ELSE IF ~flags.reporting THEN "Generate executive report"
    ELSE "Project complete - all stages finished"

stage_flags(files) ==
    [terrain_analysis |-> any_path_has("terrain_agent", files),
     layout_design |-> any_path_has("layout_agent", files),
     simulation |-> any_path_has("simulation_agent", files),
     reporting |-> any_path_has("report_agent", files)]

get_project_status(listing) ==
    IF ~listing.success THEN [returned |-> TRUE, success |-> FALSE]
    ELSE LET flags == stage_flags(listing.files)
         IN [returned |-> TRUE, success |-> TRUE,
             status |-> [terrain_analysis |-> flags.terrain_analysis,
                         layout_design |-> flags.layout_design,
                         simulation |-> flags.simulation,
                         reporting |-> flags.reporting,
                         completion_percentage |->
                             completion_percentage(completed_stages(flags))],
             next_step |-> next_step(flags),
             total_files |-> Cardinality(listing.files)]

\* paths list_project_files can report: agent folder, "/", file name
PathCatalog ==
    { <<"terrain_agent", "/", "boundaries.geojson">>,
      <<"layout_agent", "/", "turbine_layout.geojson">>,
      <<"layout_agent", "/", "layout_map_1.png">>,
      <<"simulation_agent", "/", "simulation_summary.json">>,
      <<"report_agent", "/", "wind_farm_report.pdf">>,
      <<"report_agent", "/", "simulation_agent", "_charts.png">> }

Listings ==
    {[success |-> TRUE, files |-> fs] : fs \in SUBSET PathCatalog}
    \cup {[success |-> FALSE, files |-> {}]}

InitStatus ==
    /\ TerrainIdle
    /\ AnalysisIdle
    /\ LayoutIdle
    /\ all_files \in Listings
    /\ status_reply = NoReply
    /\ latest_sim = [found |-> FALSE]
    /\ analysis_reply = NoReply

GetProjectStatus ==
    /\ ~status_reply.returned
    /\ status_reply' = get_project_status(all_files)
    /\ UNCHANGED <<all_files, latest_sim, analysis_reply>>
    /\ UNCHANGED terrainVars
    /\ UNCHANGED analysisVars
    /\ UNCHANGED validateVars

NextStatus == GetProjectStatus

SpecStatus == InitStatus /\ [][NextStatus]_vars

(***************************************************************************)
(* analyze_simulation_results.  A capacity factor is in thousandths (0.32  *)
(* is 320, so that cf = capacity_factor * 100 exceeds 30 when it exceeds   *)
(* 300), wake losses are in tenths of a percent.                           *)
(***************************************************************************)
\* the if/elif chain over cf
performance_rating(capacity_factor) ==
    IF capacity_factor = None THEN "unknown"
    ELSE IF capacity_factor[1] > 400 THEN "excellent"
    ELSE IF capacity_factor[1] > 350 THEN "good"
    ELSE IF capacity_factor[1] > 300 THEN "acceptable"
    ELSE "poor"

\* the assignments of analysis['optimization_needed']
optimization_needed(capacity_factor, wake_losses) ==
    \/ performance_rating(capacity_factor) \in {"acceptable", "poor"}
    \/ (wake_losses # None /\ wake_losses[1] > 150)

\* the metrics read from the latest cached simulation of the project
metric(sim, key) == IF sim.found THEN sim[key] ELSE None

analyze_simulation_results(sim) ==
    LET cf == metric(sim, "capacity_factor")
        wl == metric(sim, "wake_loss_percent")
    IN [returned |-> TRUE, success |-> TRUE,
        capacity_factor |-> cf,
        wake_losses |-> wl,
        performance_rating |-> performance_rating(cf),
        optimization_needed |-> optimization_needed(cf, wl),
        has_simulation_data |-> sim.found]

\* capacity factors 0.25 .. 0.45, or none stored
CapacityFactors ==
    {None} \cup {Some(v) : v \in {250, 290, 300, 320, 350, 380, 400, 450}}

\* wake losses 5 % .. 18 %, or none stored
WakeLosses == {None} \cup {Some(v) : v \in {50, 100, 120, 150, 180}}

CachedSimulations ==
    {[found |-> FALSE]}
    \cup {[found |-> TRUE, capacity_factor |-> cf, wake_loss_percent |-> wl] :
              cf \in CapacityFactors, wl \in WakeLosses}

InitAnalyze ==
    /\ TerrainIdle
    /\ AnalysisIdle
    /\ LayoutIdle
    /\ all_files = [success |-> TRUE, files |-> {}]
    /\ status_reply = NoReply
    /\ latest_sim \in CachedSimulations
    /\ analysis_reply = NoReply

AnalyzeSimulationResults ==
    /\ ~analysis_reply.returned
    /\ analysis_reply' = analyze_simulation_results(latest_sim)
    /\ UNCHANGED <<all_files, status_reply, latest_sim>>
    /\ UNCHANGED terrainVars
    /\ UNCHANGED analysisVars
    /\ UNCHANGED validateVars

NextAnalyze == AnalyzeSimulationResults

SpecAnalyze == InitAnalyze /\ [][NextAnalyze]_vars

(***************************************************************************)
(* The two tools with every failure the code provides for: either          *)
(* get_unbuildable_areas or validate_layout_quality is called.             *)
(***************************************************************************)
\* a layout feature without geometry
MalformedTurbine == [turbine_id |-> "T6"]

InitValidateAny ==
    /\ TerrainIdle
    /\ AnalysisIdle
    /\ vpc = "start"
    /\ layout \in {[present |-> FALSE, features |-> <<>>]}
                  \cup {[present |-> TRUE, features |-> q] :
                            q \in InjSeqsUpTo(TurbineCatalog \cup {MalformedTurbine},
                                              MaxTurbines)}
    /\ boundaries \in BoundaryChoices
    /\ min_spacing_m \in MinSpacingChoices
    /\ result = NoResult
    /\ ReportIdle

InitTools == InitAnalysis \/ InitValidateAny

NextTools ==
    \/ ResolveSetbacks
    \/ PostOverpass
    \/ PostOverpassRaises
    \/ OsmToGeojson
    \/ FilterByRadius
    \/ FilterByRadiusRaises
    \/ ApplySetback
    \/ ApplySetbackRaises
    \/ SimplifyGeojsonUnion
    \/ SimplifyGeojsonUnionRaises
    \/ SaveAnalysisResults
    \/ ValidateLayoutQuality

SpecTools == InitTools /\ [][NextTools]_vars

(***************************************************************************)
(* Properties of the exclusion-zone pipeline.                              *)
(***************************************************************************)
ZoneClasses == {"residence", "infrastructure", "pipeline", "water", "other"}

\* the class and distance first-match order gives a tag dictionary
FirstMatch(props, cfg) ==
    IF is_residence_receptor(props)
    THEN <<"residence", cfg.residence_setback_m>>
    ELSE IF is_road_railroad_transmission(props)
    THEN <<"infrastructure", cfg.road_setback_m>>
    ELSE IF is_pipeline_distribution(props)
    THEN <<"pipeline", cfg.lines_setback_m>>
    ELSE IF is_water_wetland(props)
    THEN <<"water", cfg.water_setback_m>>
    ELSE <<"other", IF cfg.default_setback_m = 0 THEN 100 ELSE cfg.default_setback_m>>

\* C1: apply_setback gives every feature exactly one zone class, the first
\* that matches in the order residence, infrastructure, pipeline, water,
\* other, and buffers it with that class's setback; a feature matching both
\* the residence and the infrastructure predicate is a residence.
C1_FirstMatchPriority ==
    stage = "buffered" =>
        /\ Len(buffered) = Len(filtered)
        /\ \A i \in 1..Len(buffered) :
             LET p == filtered[i].properties
                 b == buffered[i]
             IN /\ b.setback_type \in ZoneClasses
                /\ b.setback_type = FirstMatch(p, setbacks)[1]
                /\ b.default_setback_m = FirstMatch(p, setbacks)[2]
                /\ b.geometry.lo * MetersPerUnit
                     = filtered[i].geometry.lo * MetersPerUnit - b.default_setback_m
                /\ (is_residence_receptor(p) /\ is_road_railroad_transmission(p))
                     => /\ b.setback_type = "residence"
                        /\ b.default_setback_m = setbacks.residence_setback_m

C1_Witness ==
    /\ stage = "buffered"
    /\ \E i \in 1..Len(buffered) :
         /\ filtered[i].properties["building"] = "house"
         /\ filtered[i].properties["highway"] # ""
         /\ buffered[i].setback_type = "residence"
         /\ buffered[i].default_setback_m = setbacks.residence_setback_m

\* C2 as stated: a feature whose building tag is house, apartments, school,
\* hospital, clinic, nursing_home or kindergarten is classified residence and
\* gets the residence setback.
C2_BuildingTagResidence ==
    stage = "buffered" =>
        \A i \in 1..Len(buffered) :
            filtered[i].properties["building"] \in
                {"house", "apartments", "school", "hospital", "clinic",
                 "nursing_home", "kindergarten"}
            => /\ buffered[i].setback_type = "residence"
               /\ buffered[i].default_setback_m = setbacks.residence_setback_m

\* C2 amended: a feature whose building tag is house or apartments, or whose
\* amenity tag is school, hospital, clinic, nursing_home or kindergarten, is
\* classified residence and gets the residence setback, never infrastructure
\* or other.
C2_ResidenceTags ==
    stage = "buffered" =>
        \A i \in 1..Len(buffered) :
            (\/ filtered[i].properties["building"] \in {"house", "apartments"}
             \/ filtered[i].properties["amenity"] \in
                  {"school", "hospital", "clinic", "nursing_home", "kindergarten"})
            => /\ buffered[i].setback_type = "residence"
               /\ buffered[i].setback_type \notin {"infrastructure", "other"}
               /\ buffered[i].default_setback_m = setbacks.residence_setback_m

C2_Witness ==
    /\ stage = "buffered"
    /\ \E i \in 1..Len(buffered) :
         /\ filtered[i].properties["amenity"] = "school"
         /\ filtered[i].properties["building"] = "commercial"
         /\ buffered[i].setback_type = "residence"

\* the number of indices of s whose element is f
Count(s, f) == Cardinality({i \in 1..Len(s) : s[i] = f})

\* C3: filter_by_radius keeps a feature if and only if the planar distance
\* from its geometry to the centre is at most radius_km * 1000 metres.
C3_RadiusFilter ==
    stage # "fetched" =>
        \A i \in 1..Len(geojson) :
            LET f == geojson[i]
                d == distance_to_center(f.geometry, center_lat)
            IN /\ d <= radius_km * 1000 => Count(filtered, f) = Count(geojson, f)
               /\ d > radius_km * 1000 => Count(filtered, f) = 0

C3_Witness ==
    /\ stage = "filtered"
    /\ \E i \in 1..Len(geojson) :
         /\ distance_to_center(geojson[i].geometry, center_lat) = radius_km * 1000
         /\ Count(filtered, geojson[i]) = 1
    /\ \E i \in 1..Len(geojson) :
         /\ distance_to_center(geojson[i].geometry, center_lat) > radius_km * 1000
         /\ Count(filtered, geojson[i]) = 0

\* C4 as stated: every output zone covers, and is at least as large as, every
\* buffered feature handed to the reducer for the zone's group.
C4_MonotonicCoverage ==
    stage = "merged" =>
        \A k \in 1..Len(merged) : \A i \in 1..Len(buffered) :
            in_group(merged[k].feature_type, buffered[i])
            => /\ PartsArea(merged[k].geometry) >= Area(buffered[i].geometry)
               /\ CellsOf(buffered[i].geometry) \subseteq PartsCells(merged[k].geometry)

\* the buffered features some output zone absorbed
Absorbed == UNION {merged[k].members : k \in 1..Len(merged)}

SameZone(i, j) == \E k \in 1..Len(merged) : {i, j} \subseteq merged[k].members

TagGroups(f) ==
    LET b == f.properties["building"] # ""
        h == f.properties["highway"] # ""
        w == f.properties["natural"] = "water" \/ f.properties["waterway"] # ""
    IN {n \in {"buildings"} : b} \cup {n \in {"roads"} : h} \cup {n \in {"water"} : w}
       \cup {n \in {"other"} : ~b /\ ~h /\ ~w}

Succeeded == vpc = "done" /\ result.status = "success"

Turbines == layout.features

\* the entries of a list of the result that name the pair {a, b}
PairEntries(list, a, b) ==
    {k \in 1..Len(list) : {list[k].turbine1, list[k].turbine2} = {a, b}}

\* C6: a validated layout of n turbines has n*(n-1)/2 entries in
\* turbine_distances, exactly one for every unordered pair of distinct
\* turbines and none pairing a turbine with itself.
C6_OneEntryPerPair ==
    Succeeded =>
        LET n == Len(Turbines)
            td == result.turbine_distances
        IN /\ 2 * Len(td) = n * (n - 1)
           /\ \A k \in 1..Len(td) : td[k].turbine1 # td[k].turbine2
           /\ \A i \in 1..n : \A j \in 1..n :
                i # j => Cardinality(PairEntries(td, Turbines[i].turbine_id,
                                                 Turbines[j].turbine_id)) = 1

C6_Witness ==
    /\ Succeeded
    /\ Len(Turbines) = 3
    /\ Len(result.turbine_distances) = 3

\* C7 as stated: in every result returned, validation_passed is true if and
\* only if boundary_violations and spacing_violations are both empty.
C7_PassedIffNoViolations ==
    vpc = "done" =>
        (result.validation_passed
            <=> (result.boundary_violations = <<>> /\ result.spacing_violations = <<>>))

\* C7 amended: in every result with status success, validation_passed is
\* true if and only if boundary_violations and spacing_violations are both
\* empty; a result with status error has validation_passed false and both
\* lists empty.
C7_PassedIffNoViolationsOnSuccess ==
    vpc = "done" =>
        /\ result.status = "success" =>
             (result.validation_passed
                <=> (result.boundary_violations = <<>>
                     /\ result.spacing_violations = <<>>))
        /\ result.status = "error" =>
             /\ ~result.validation_passed
             /\ result.boundary_violations = <<>>
             /\ result.spacing_violations = <<>>

C7_Witness ==
    /\ Succeeded
    /\ ~result.validation_passed
    /\ result.boundary_violations = <<>>
    /\ result.spacing_violations # <<>>

\* the length (mm) between turbines i and j of the layout, as lines 125-129
PairDistance(i, j) == distance(Turbines[i], Turbines[j])

\* C8 as stated: a pair is in spacing_violations if and only if its distance
\* is strictly less than min_spacing_m, its reported shortfall is
\* min_spacing_m minus that distance, and every pair is in turbine_distances.
C8_ShortfallExact ==
    Succeeded =>
        \A i \in 1..Len(Turbines) : \A j \in 1..Len(Turbines) :
            i < j =>
              LET a == Turbines[i].turbine_id
                  b == Turbines[j].turbine_id
                  sv == result.spacing_violations
              IN /\ (PairEntries(sv, a, b) # {}) <=> (PairDistance(i, j) < min_spacing_m)
                 /\ \A k \in PairEntries(sv, a, b) :
                      sv[k].shortfall_m = min_spacing_m - PairDistance(i, j)
                 /\ PairEntries(result.turbine_distances, a, b) # {}

\* C8 amended: a pair is in spacing_violations if and only if its distance is
\* strictly less than min_spacing_m, its reported shortfall is min_spacing_m
\* minus that distance rounded to one decimal of a metre, and every pair,
\* violating or not, is in turbine_distances.
C8_ShortfallRounded ==
    Succeeded =>
        \A i \in 1..Len(Turbines) : \A j \in 1..Len(Turbines) :
            i < j =>
              LET a == Turbines[i].turbine_id
                  b == Turbines[j].turbine_id
                  sv == result.spacing_violations
                  exact == min_spacing_m - PairDistance(i, j)
              IN /\ (PairEntries(sv, a, b) # {}) <=> (PairDistance(i, j) < min_spacing_m)
                 /\ \A k \in PairEntries(sv, a, b) :
                      /\ sv[k].shortfall_m % 100 = 0
                      /\ sv[k].shortfall_m - exact <= 50
                      /\ exact - sv[k].shortfall_m <= 50
                 /\ PairEntries(result.turbine_distances, a, b) # {}

C8_Witness ==
    /\ Succeeded
    /\ \E i \in 1..Len(Turbines) : \E j \in 1..Len(Turbines) :
         /\ i < j
         /\ PairDistance(i, j) = min_spacing_m
         /\ PairEntries(result.spacing_violations,
                        Turbines[i].turbine_id, Turbines[j].turbine_id) = {}
    /\ \E k \in 1..Len(result.spacing_violations) :
         result.spacing_violations[k].shortfall_m > 0

HasZones == boundaries.present /\ boundaries.features # <<>>

\* the zones of the boundaries file whose geometry the turbine's point meets
ZonesHit(t) ==
    {k \in 1..Len(boundaries.features) :
        \E p \in boundaries.features[k].geometry : p.lo <= t.lat /\ t.lat <= p.hi}

BoundaryEntriesOf(id) ==
    {k \in 1..Len(result.boundary_violations) :
        result.boundary_violations[k].turbine_id = id}

\* C9: with exclusion-zone data present, a turbine has an entry in
\* boundary_violations if and only if its point intersects some zone, and at
\* most one entry however many zones it intersects.
C9_BoundaryEntryIffIntersects ==
    (Succeeded /\ HasZones) =>
        /\ \A i \in 1..Len(Turbines) :
             Cardinality(BoundaryEntriesOf(Turbines[i].turbine_id))
                = IF ZonesHit(Turbines[i]) # {} THEN 1 ELSE 0
        /\ \A k \in 1..Len(result.boundary_violations) :
             \E i \in 1..Len(Turbines) :
                 result.boundary_violations[k].turbine_id = Turbines[i].turbine_id

C9_Witness ==
    /\ Succeeded
    /\ HasZones
    /\ \E i \in 1..Len(Turbines) :
         /\ Cardinality(ZonesHit(Turbines[i])) = 2
         /\ Cardinality(BoundaryEntriesOf(Turbines[i].turbine_id)) = 1
    /\ \E i \in 1..Len(Turbines) :
         /\ ZonesHit(Turbines[i]) = {}
         /\ BoundaryEntriesOf(Turbines[i].turbine_id) = {}

C11_MissingLayoutFailureResult ==
    (vpc = "done" /\ (~layout.present \/ layout.features = <<>>)) =>
        /\ result.status = "error"
        /\ result.validation_passed = FALSE
        /\ result.message # ""
        /\ result.boundary_violations = <<>>
        /\ result.spacing_violations = <<>>
        /\ result.turbine_distances = <<>>

\* a layout file that holds no turbines was validated, with zones on file
C11_Witness ==
    /\ vpc = "done"
    /\ layout.present
    /\ layout.features = <<>>
    /\ boundaries.features # <<>>
    /\ result.status = "error"
    /\ result.message = "No turbines found in layout"

\* a turbine-free zone: no turbine of the catalog stands in it
FarZone == Zone({[lo |-> 300, hi |-> 310]}, "roads", 1)

\* C12: when no exclusion-zone data is available (no boundaries file, or one
\* without features), validation is not an error: the spacing check runs with
\* status success, no boundary violation is reported, and the result states
\* that boundary checking was skipped, so it differs from the result of a
\* boundary check that was performed and found nothing.
C12_SkippedBoundaryCheckIsStated ==
    (vpc = "done" /\ layout.present /\ layout.features # <<>>
        /\ (~boundaries.present \/ boundaries.features = <<>>)) =>
        /\ result.status = "success"
        /\ result.spacing_validation_applied
        /\ result.boundary_violations = <<>>
        /\ result # validate_layout_quality(layout,
                         [present |-> TRUE, features |-> <<FarZone>>], min_spacing_m)

(***************************************************************************)
(* Error handling of the terrain analysis.                                 *)
(***************************************************************************)
SetbackArgs ==
    {"default_setback_m", "residence_setback_m", "road_setback_m",
     "water_setback_m", "lines_setback_m"}

\* a configuration error: a radius of zero (or less), or a negative setback
ConfigurationError(a) ==
    \/ a.radius_km <= 0
    \/ \E k \in SetbackArgs : a[k] # None /\ a[k][1] < 0

\* the steps of the analysis that fetch, filter, buffer or merge have run
GeometricWorkDone ==
    stage \in {"responded", "fetched", "filtered", "buffered", "merged",
               "fallback", "failed", "returned"}

\* C13: a configuration error (a negative setback distance, a zero radius) is
\* rejected before any fetching, filtering, buffering or merging step runs,
\* and the analysis does not report success on it.
C13_ConfigurationErrorRejected ==
    ConfigurationError(args) =>
        /\ ~GeometricWorkDone
        /\ (outcome.returned => ~outcome.success)

\* buffering raised for one row of a batch of at least two features
BufferingFailed ==
    /\ outcome.returned
    /\ outcome.raised_in = "apply_setback"
    /\ Len(filtered) >= 2

\* C14: if buffering one feature fails, only that feature is skipped: the
\* analysis as a whole still succeeds and its exclusion-zone output is built
\* from the buffers of the other features of the batch.
C14_BufferFailureSkipsOneFeature ==
    BufferingFailed =>
        /\ outcome.success
        /\ Len(buffered) >= Len(filtered) - 1

FallbackLabels == {"buildings", "roads", "water", "other"}

\* C15: if union or simplification raises inside simplify_geojson_union, the
\* returned collection holds every input buffered feature unmerged: as many
\* features, in the same order, each with its geometry and setback record
\* unchanged and each carrying a feature_type label.
C15_FallbackKeepsEveryFeature ==
    [][stage' = "fallback" =>
        /\ Len(merged') = Len(buffered)
        /\ \A i \in 1..Len(buffered) :
             /\ merged'[i].geometry = buffered[i].geometry
             /\ merged'[i].properties = buffered[i].properties
             /\ merged'[i].setback_type = buffered[i].setback_type
             /\ merged'[i].feature_type \in FallbackLabels]_vars

\* the fallback returned a house and a feature matching no group, unmerged
C15_Witness ==
    /\ stage = "fallback"
    /\ Len(merged) = 2
    /\ merged[1].feature_type = "buildings"
    /\ merged[2].feature_type = "other"
    /\ merged[2].geometry = buffered[2].geometry

\* every feature of the converted collection lies beyond the radius
AllBeyondRadius ==
    \A i \in 1..Len(geojson) :
        distance_to_center(geojson[i].geometry, center_lat) > radius_km * 1000

PipelineRan ==
    stage \in {"filtered", "buffered", "merged", "fallback", "failed", "returned"}

\* C16: an empty raw collection gives an empty collection at every stage of
\* the pipeline and no error; the same holds from the filter on when the
\* radius filter removes every feature.
C16_EmptyInEmptyOut ==
    /\ (osm_data.elements = <<>> /\ stage # "called" /\ stage # "resolved") =>
           /\ geojson = <<>> /\ filtered = <<>> /\ buffered = <<>> /\ merged = <<>>
           /\ stage \notin {"failed", "fallback"}
           /\ (outcome.returned => outcome.raised_in # "apply_setback")
    /\ (PipelineRan /\ AllBeyondRadius) =>
           /\ filtered = <<>> /\ buffered = <<>> /\ merged = <<>>
           /\ stage \notin {"failed", "fallback"}
           /\ (outcome.returned => outcome.raised_in # "apply_setback")

\* a response with features, all beyond the radius, ended as an empty
\* collection returned with success
C16_Witness ==
    /\ stage = "returned"
    /\ geojson # <<>>
    /\ AllBeyondRadius
    /\ filtered = <<>>
    /\ outcome.success
    /\ outcome.GeoJSON_data = <<>>

(***************************************************************************)
(* Properties of osm_to_geojson.                                           *)
(***************************************************************************)
\* the response was converted
Converted ==
    /\ osm_data.status_code = 200
    /\ stage \notin {"called", "resolved", "responded"}

\* the elements that carry at least two coordinates of their own
WithTwoCoordinates == SelectSeq(osm_data.elements, LAMBDA e : Len(e.geometry) >= 2)

ClosedRing(coords) == coords[1] = coords[Len(coords)]

\* C17: osm_to_geojson emits a Polygon for a record exactly when its first
\* and last coordinates are equal and it has more than three vertices; every
\* other retained record (a closed ring of exactly three vertices, an open
\* line of any length) is emitted as a LineString.
C17_PolygonIffClosedAndMoreThanThree ==
    Converted =>
        /\ Len(geojson) = Len(WithTwoCoordinates)
        /\ \A k \in 1..Len(geojson) :
             LET coords == WithTwoCoordinates[k].geometry
             IN IF ClosedRing(coords) /\ Len(coords) > 3
                THEN geojson[k].geometry.type = "Polygon"
                ELSE geojson[k].geometry.type = "LineString"

\* a closed ring of three vertices became a LineString and a closed ring of
\* four vertices a Polygon
C17_Witness ==
    /\ stage = "fetched"
    /\ Len(geojson) = 2
    /\ Len(osm_data.elements[1].geometry) = 3
    /\ ClosedRing(osm_data.elements[1].geometry)
    /\ geojson[1].geometry.type = "LineString"
    /\ Len(osm_data.elements[2].geometry) = 4
    /\ ClosedRing(osm_data.elements[2].geometry)
    /\ geojson[2].geometry.type = "Polygon"

\* the coordinates a record of the response carries
Carried(e) == e.geometry \o e.members

CarryingTwo == SelectSeq(osm_data.elements, LAMBDA e : Len(Carried(e)) >= 2)

\* C18: osm_to_geojson emits exactly one feature, in input order, for every
\* raw record that carries at least two coordinates (identical records are
\* each kept) and no feature for a record with fewer than two coordinates.
C18_OneFeaturePerRecord ==
    Converted =>
        /\ Len(geojson) = Len(CarryingTwo)
        /\ \A k \in 1..Len(geojson) :
             geojson[k].properties = Tags(CarryingTwo[k].tags)

(***************************************************************************)
(* Properties of the setback resolution (distances in centimetres; the     *)
(* distance recorded on a buffered feature is in metres).                  *)
(***************************************************************************)
SetbacksResolved == stage # "called"

\* a feature matching no class was buffered
OtherBuffered ==
    /\ stage \in {"buffered", "merged", "fallback", "returned"}
    /\ buffered # <<>>
    /\ buffered[1].setback_type = "other"

\* a supplied setback is handed on unchanged
PassedUnchanged(k) == args[k] # None => resolved[k] = args[k][1]

DefaultOr(n) ==
    IF args.default_setback_m # None /\ args.default_setback_m[1] # 0
    THEN args.default_setback_m[1] ELSE n

ClassArg(ftype) ==
    CASE ftype = "residence" -> "residence_setback_m"
      [] ftype = "infrastructure" -> "road_setback_m"
      [] ftype = "pipeline" -> "lines_setback_m"
      [] ftype = "water" -> "water_setback_m"
      [] OTHER -> "default_setback_m"

FeaturesBuffered ==
    /\ stage \in {"buffered", "merged", "fallback", "returned"}
    /\ buffered # <<>>

\* C20: a setback of zero supplied by the caller for any zone class, the
\* default setback used for Other features included, is applied as zero:
\* the features of that class are buffered by distance 0 and no other
\* distance is substituted.
C20_ZeroSetbackApplied ==
    FeaturesBuffered =>
        \A i \in 1..Len(buffered) :
            args[ClassArg(buffered[i].setback_type)] = Some(0) =>
                /\ buffered[i].default_setback_m = 0
                /\ buffered[i].geometry = buffer_geometry(filtered[i].geometry, 0)

(***************************************************************************)
(* Order of the steps of simplify_geojson_union.                           *)
(***************************************************************************)
\* the rows of the buffered collection that belong to a group
GroupRows(name) == {i \in 1..Len(buffered) : name \in TagGroups(buffered[i])}

\* C21: the small-area discard is applied after the union, to the merged
\* result of a group: buffered features that are individually below the
\* area threshold are still merged, so whenever the union of the buffers of
\* a group exceeds the threshold, the group has a merged feature that
\* absorbed every one of its buffers.
C21_DiscardAfterUnion ==
    stage = "merged" =>
        \A name \in FallbackLabels :
            PartsArea(unary_union({buffered[i].geometry : i \in GroupRows(name)}))
                > AreaThreshold
            => \E k \in 1..Len(merged) :
                   /\ merged[k].feature_type = name
                   /\ merged[k].members = GroupRows(name)

Position(id) ==
    CHOOSE i \in 1..Len(layout.features) : layout.features[i].turbine_id = id

\* pair entry a comes before pair entry b: by first turbine, then by second
PairBefore(a, b) ==
    \/ Position(a.turbine1) < Position(b.turbine1)
    \/ /\ Position(a.turbine1) = Position(b.turbine1)
       /\ Position(a.turbine2) < Position(b.turbine2)

PairsInInputOrder(list) ==
    /\ \A k \in 1..Len(list) : Position(list[k].turbine1) < Position(list[k].turbine2)
    /\ \A k \in 1..(Len(list) - 1) : PairBefore(list[k], list[k + 1])

InInputOrder(res) ==
    /\ \A k \in 1..(Len(res.boundary_violations) - 1) :
           Position(res.boundary_violations[k].turbine_id)
               < Position(res.boundary_violations[k + 1].turbine_id)
    /\ PairsInInputOrder(res.turbine_distances)
    /\ PairsInInputOrder(res.spacing_violations)

AnalysisRaised == stage = "failed"

AnalysisEnded == stage \in {"failed", "returned"}

ArgumentsKept ==
    /\ stage' = "fetched" => osm_data' = osm_data
    /\ stage' = "filtered" => geojson' = geojson
    /\ stage' = "buffered" => filtered' = filtered
    /\ stage' = "merged" => buffered' = buffered
    /\ vpc' = "done" => (layout' = layout /\ boundaries' = boundaries)

\* the record without its feature_type label
Unlabelled(f) ==
    [geometry |-> f.geometry, properties |-> f.properties,
     setback_applied |-> f.setback_applied,
     default_setback_m |-> f.default_setback_m,
     setback_type |-> f.setback_type]

\* C25 as stated: no operation changes the collection it is given, the
\* fallback of simplify_geojson_union included.
C25_NothingMutated ==
    [][ArgumentsKept /\ (stage' = "fallback" => buffered' = buffered)]_vars

\* C25: osm_to_geojson, filter_by_radius, apply_setback, the merge of
\* simplify_geojson_union and validate_layout_quality leave the collection
\* they are given as it was; the fallback of simplify_geojson_union changes
\* the collection it is given, and only by adding a feature_type label to
\* each of its features.
C25_OnlyFallbackLabelsItsInput ==
    [][/\ ArgumentsKept
       /\ stage' = "fallback" =>
            /\ buffered' # buffered
            /\ Len(buffered') = Len(buffered)
            /\ \A i \in 1..Len(buffered) :
                 /\ Unlabelled(buffered'[i]) = buffered[i]
                 /\ buffered'[i].feature_type \in FallbackLabels]_vars

\* the fallback ran and the collection it was given now carries the labels
C25_Witness ==
    /\ stage = "fallback"
    /\ Len(buffered) = 2
    /\ Len(filtered) = 2
    /\ "feature_type" \in DOMAIN buffered[1]
    /\ buffered[2].feature_type = "other"
    /\ merged = buffered

(***************************************************************************)
(* The counts of the merged zones.                                         *)
(***************************************************************************)
RECURSIVE CountsFrom(_, _)
\* the sum of original_count over the zones of a collection, from zone k on
CountsFrom(zones, k) ==
    IF k > Len(zones) THEN 0
    ELSE zones[k].original_count + CountsFrom(zones, k + 1)

\* the zones that absorbed row i
ZonesOf(zones, i) == {k \in 1..Len(zones) : i \in zones[k].members}

\* the pairs (row, tag group of the row) over a set of rows
GroupMemberships(rows) ==
    {p \in rows \X FallbackLabels : p[2] \in TagGroups(buffered[p[1]])}

DistanceEntriesOf(v) ==
    PairEntries(result.turbine_distances, v.turbine1, v.turbine2)

\* C27 as stated: every spacing violation reports a shortfall above 0 and a
\* distance below the required one, and the distance of its pair in
\* turbine_distances is the distance it reports.
C27_StrictAsReported ==
    Succeeded =>
        \A k \in 1..Len(result.spacing_violations) :
            LET v == result.spacing_violations[k]
            IN /\ v.shortfall_m > 0
               /\ v.actual_distance_m < v.required_distance_m
               /\ DistanceEntriesOf(v) # {}
               /\ \A e \in DistanceEntriesOf(v) :
                    result.turbine_distances[e].distance_m = v.actual_distance_m

\* C27: every spacing violation reports a shortfall of 0 or more and a
\* distance that is a multiple of 0.1 m and exceeds the required distance by
\* less than 0.05 m (a pair less than 0.05 m short is reported with shortfall
\* 0.0 and a distance equal to, or above, the required one), and the distance
\* of its pair in turbine_distances is the distance it reports.
C27_RoundedAsReported ==
    Succeeded =>
        \A k \in 1..Len(result.spacing_violations) :
            LET v == result.spacing_violations[k]
            IN /\ v.shortfall_m >= 0
               /\ v.shortfall_m % 100 = 0
               /\ v.actual_distance_m % 100 = 0
               /\ v.actual_distance_m - v.required_distance_m < 50
               /\ v.required_distance_m = min_spacing_m
               /\ DistanceEntriesOf(v) # {}
               /\ \A e \in DistanceEntriesOf(v) :
                    result.turbine_distances[e].distance_m = v.actual_distance_m

\* two turbines 22.264 m apart with a minimum spacing of 22.27 m: a violation
\* reported with distance 22.3 m and shortfall 0.0
C27_Witness ==
    /\ Succeeded
    /\ \E k \in 1..Len(result.spacing_violations) :
         LET v == result.spacing_violations[k]
         IN /\ v.shortfall_m = 0
            /\ v.actual_distance_m > v.required_distance_m
            /\ \E e \in DistanceEntriesOf(v) :
                 result.turbine_distances[e].distance_m = v.actual_distance_m

(***************************************************************************)
(* A request the Overpass API did not answer with status 200.              *)
(***************************************************************************)
Answered == stage \notin {"called", "resolved"}

\* C28: when the Overpass API answers with a status other than 200,
\* query_overpass returns an empty collection without converting, filtering,
\* buffering or merging anything, and get_unbuildable_areas, when the save
\* succeeds, returns success with no exclusion feature, as for an area
\* without constraints.
C28_FailedFetchReportedAsEmptyArea ==
    (osm_data.status_code # 200 /\ Answered) =>
        /\ stage \in {"merged", "returned"}
        /\ geojson = <<>> /\ filtered = <<>> /\ buffered = <<>> /\ merged = <<>>
        /\ stage = "returned" =>
             /\ outcome.returned
             /\ outcome.success => outcome = Returned(TRUE, "", <<>>)
             /\ ~outcome.success => outcome.raised_in = "save_analysis_results"

\* a response with status 203 whose body holds a house was reported as a
\* successful analysis without features
C28_Witness ==
    /\ stage = "returned"
    /\ osm_data.status_code = 203
    /\ osm_data.elements # <<>>
    /\ outcome.success
    /\ outcome.GeoJSON_data = <<>>

(***************************************************************************)
(* The progress get_project_status reports.                                *)
(***************************************************************************)
StageOrder == <<"terrain_analysis", "layout_design", "simulation", "reporting">>

AgentOf ==
    [terrain_analysis |-> "terrain_agent", layout_design |-> "layout_agent",
     simulation |-> "simulation_agent", reporting |-> "report_agent"]

StepFor ==
    [terrain_analysis |-> "Run terrain analysis to identify unbuildable areas",
     layout_design |-> "Create turbine layout design",
     simulation |-> "Run wake simulation and energy calculations",
     reporting |-> "Generate executive report"]

\* the stages of the project that have files: some listed path names the
\* folder of the stage's agent
StagesWithFiles ==
    {k \in 1..Len(StageOrder) :
        \E f \in all_files.files : \E p \in 1..Len(f) : f[p] = AgentOf[StageOrder[k]]}

StagesWithout == (1..Len(StageOrder)) \ StagesWithFiles

StatusReported == status_reply.returned /\ status_reply.success

\* C29: get_project_status reports a completion_percentage of 25 times the
\* number of stages that have files, and its next_step names the first stage
\* without files in the order terrain, layout, simulation, reporting; it says
\* the project is complete exactly when the percentage is 100.
C29_ProgressAndNextStep ==
    StatusReported =>
        /\ status_reply.status.completion_percentage = 25 * Cardinality(StagesWithFiles)
        /\ \A k \in StagesWithout :
             (\A j \in StagesWithout : k <= j)
                 => status_reply.next_step = StepFor[StageOrder[k]]
        /\ (status_reply.next_step = "Project complete - all stages finished")
               <=> (status_reply.status.completion_percentage = 100)
        /\ StagesWithout = {} => status_reply.status.completion_percentage = 100

\* files of the terrain and the simulation stage only: 50 percent, and the
\* layout is the next step
C29_Witness ==
    /\ StatusReported
    /\ StagesWithFiles = {1, 3}
    /\ status_reply.status.completion_percentage = 50
    /\ status_reply.next_step = "Create turbine layout design"

(***************************************************************************)
(* The rating of a simulation and the call for optimization.               *)
(***************************************************************************)
Analyzed == analysis_reply.returned /\ analysis_reply.success

\* C30: analyze_simulation_results rates a capacity factor above 40 % as
\* excellent, above 35 % as good, above 30 % as acceptable and below 30 % as
\* poor; optimization_needed is set exactly when the rating is poor or the
\* wake losses exceed 15 %; without simulation data the rating is unknown and
\* optimization_needed is false.
C30_OptimizationOnlyWhenPoorOrHighWake ==
    Analyzed =>
        LET cf == analysis_reply.capacity_factor
            wl == analysis_reply.wake_losses
            rating == analysis_reply.performance_rating
        IN /\ cf # None =>
                /\ cf[1] > 400 => rating = "excellent"
                /\ (cf[1] > 350 /\ cf[1] <= 400) => rating = "good"
                /\ (cf[1] > 300 /\ cf[1] <= 350) => rating = "acceptable"
                /\ cf[1] < 300 => rating = "poor"
           /\ analysis_reply.optimization_needed
                  <=> (rating = "poor" \/ (wl # None /\ wl[1] > 150))
           /\ ~analysis_reply.has_simulation_data =>
                  (rating = "unknown" /\ ~analysis_reply.optimization_needed)
====
